---- MODULE Spec2Model ----
(***************************************************************************)
(* CoGaDB column store: the plain Column<T>, the                           *)
(* DictionaryCompressedColumn<T> and the RLECompressedColumn<T>, with the  *)
(* operators of ColumnBaseTyped<T> layered on operator[] and size().       *)
(*                                                                         *)
(* One behaviour exercises one representation (rep, chosen in Init) with   *)
(* element type T = int.  Rows are 0-based as in the code; TLA+ sequences  *)
(* are 1-based, so row i of a vector s is s[i + 1].                        *)
(***************************************************************************)
EXTENDS Integers, Sequences, FiniteSets, TLC

VARIABLES rep, heap, copy, file, snapshot, reference_data, last, res

vars == <<rep, heap, copy, file, snapshot, reference_data, last, res>>

(* what the calls on one column leave alone *)
frame == <<rep, copy, file, snapshot>>

(***************************************************************************)
(* Bounds of the model.                                                    *)
(***************************************************************************)
MaxRows == 3
MaxVal == 2
MaxRuns == 4
MaxFill == 256
MaxThreads == 2

Values == 1..MaxVal
(***************************************************************************)
(* Value model: ColumnType = std::variant<monostate, int, float, string,   *)
(* bool>.  The columns of the model have value_type int.                   *)
(***************************************************************************)
value_type == "int"

ColumnType == [type : {"int"}, value : Values]
                \cup [type : {"std::monostate", "std::string"}, value : {0}]

IntValue(v) == [type |-> "int", value |-> v]

holds_alternative(nv) == nv.type = value_type

(* static T t of RLECompressedColumn::operator[]: a zero-initialised int *)
static_t == 0

UINT8_MAX == 255

U8(x) == x % 256

(***************************************************************************)
(* std::vector helpers (0-based positions).                                *)
(***************************************************************************)
vector_erase(s, i) == SubSeq(s, 1, i) \o SubSeq(s, i + 2, Len(s))

vector_insert(s, i, elems) == SubSeq(s, 1, i) \o elems \o SubSeq(s, i + 1, Len(s))

vector_assign(s, i, v) == [s EXCEPT ![i + 1] = v]

(***************************************************************************)
(* A column object.  Only the fields of its own representation are used:   *)
(* values_ (Column), dictionary and table (DictionaryCompressedColumn),    *)
(* values (RLECompressedColumn, a vector of <<run length, value>>).        *)
(***************************************************************************)
EmptyColumn == [values_ |-> <<>>, dictionary |-> <<>>, table |-> <<>>, values |-> <<>>]

(***************************************************************************)
(* Results reported to the caller.                                         *)
(***************************************************************************)
Void == [kind |-> "void", value |-> 0, list |-> <<>>]
Returned(v) == [kind |-> "value", value |-> v, list |-> <<>>]
ReturnedList(l) == [kind |-> "list", value |-> 0, list |-> l]
Threw(e) == [kind |-> e, value |-> 0, list |-> <<>>]
Aborted == [kind |-> "abort", value |-> 0, list |-> <<>>]

(***************************************************************************)
(* Column<T>                                                               *)
(***************************************************************************)
Column_size(c) == Len(c.values_)

Column_index(c, index) == c.values_[index + 1]

Column_insert(c, new_value) == [c EXCEPT !.values_ = Append(@, new_value)]

Column_update(c, tid, value) == [c EXCEPT !.values_ = vector_assign(@, tid, value)]

Column_remove(c, tid) == [c EXCEPT !.values_ = vector_erase(@, tid)]

Column_clearContent(c) == [c EXCEPT !.values_ = <<>>]

(***************************************************************************)
(* DictionaryCompressedColumn<T>                                           *)
(***************************************************************************)
Dictionary_size(c) == Len(c.table)

Dictionary_index(c, index) == c.dictionary[c.table[index + 1] + 1]

(* the linear scan of insert and update: first i with dictionary[i] == v,
   or dictionary.size() when there is none *)
Dictionary_find(dictionary, v) ==
    IF \E i \in 1..Len(dictionary) : dictionary[i] = v
    THEN (CHOOSE i \in 1..Len(dictionary) :
             /\ dictionary[i] = v
             /\ \A j \in 1..(i - 1) : dictionary[j] # v) - 1
    ELSE Len(dictionary)

(* variant: the value is appended to the dictionary without the scan *)
Dictionary_insert_append(c, newRecord) ==
    [c EXCEPT !.dictionary = Append(@, newRecord), !.table = Append(@, Len(c.dictionary))]

Dictionary_insert(c, newRecord) ==
    LET i == Dictionary_find(c.dictionary, newRecord)
    IN  IF i < Len(c.dictionary)
        THEN [c EXCEPT !.table = Append(@, i)]
        ELSE [c EXCEPT !.dictionary = Append(@, newRecord), !.table = Append(@, i)]

(* variant: newIndex is read after the push_back *)
Dictionary_update_stale(c, id, newRecordValue) ==
    LET i == Dictionary_find(c.dictionary, newRecordValue)
    IN  IF i < Len(c.dictionary)
        THEN [c EXCEPT !.table = vector_assign(@, id, i)]
        ELSE [c EXCEPT !.dictionary = Append(@, newRecordValue),
                       !.table = vector_assign(@, id, i + 1)]

Dictionary_update(c, id, newRecordValue) ==
    LET i == Dictionary_find(c.dictionary, newRecordValue)
    IN  IF i < Len(c.dictionary)
        THEN [c EXCEPT !.table = vector_assign(@, id, i)]
        ELSE [c EXCEPT !.dictionary = Append(@, newRecordValue),
                       !.table = vector_assign(@, id, i)]

(* variant: the last dictionary entry is dropped with its last row *)
Dictionary_remove_compact(c, id) ==
    LET table == vector_erase(c.table, id)
        unused == /\ c.dictionary # <<>>
                  /\ \A k \in 1..Len(table) : table[k] # Len(c.dictionary) - 1
    IN  [c EXCEPT !.table = table,
                  !.dictionary = IF unused THEN SubSeq(@, 1, Len(@) - 1) ELSE @]

Dictionary_remove(c, id) == [c EXCEPT !.table = vector_erase(@, id)]

(* variant: the table is emptied and the dictionary is kept *)
Dictionary_clearContent_table(c) == [c EXCEPT !.table = <<>>]

Dictionary_clearContent(c) == [c EXCEPT !.table = <<>>, !.dictionary = <<>>]

(***************************************************************************)
(* RLECompressedColumn<T>                                                  *)
(***************************************************************************)
RECURSIVE RLE_size_from(_, _)
RLE_size_from(values, k) ==
    IF k > Len(values) THEN 0 ELSE values[k][1] + RLE_size_from(values, k + 1)

RLE_size(c) == RLE_size_from(c.values, 1)

RECURSIVE RLE_index_from(_, _, _)
RLE_index_from(values, k, idx) ==
    IF k > Len(values) THEN static_t
    ELSE IF values[k][1] > idx THEN values[k][2]
    ELSE RLE_index_from(values, k + 1, idx - values[k][1])

RLE_index(c, idx) == RLE_index_from(c.values, 1, idx)

(* the while loop of tid_to_idx; yields <<idx_pair, idx_str>> *)
RECURSIVE tid_to_idx_loop(_, _, _, _, _)
tid_to_idx_loop(values, tid, tid_of_run_start, idx_pair, idx_str) ==
    IF tid_of_run_start <= tid /\ idx_pair < Len(values)
    THEN LET cur == values[idx_pair + 1]
             str == tid - tid_of_run_start
         IN  IF str < cur[1] THEN <<idx_pair, str>>
             ELSE tid_to_idx_loop(values, tid, tid_of_run_start + cur[1], idx_pair + 1, str)
    ELSE <<idx_pair, idx_str>>

tid_to_idx(values, tid) == tid_to_idx_loop(values, tid, 0, 0, 0)

(* variant: the run counter is incremented without the cap *)
RLE_insert_nocap(c, new_value) ==
    LET length == Len(c.values)
    IN  IF length > 0 /\ c.values[length][2] = new_value
        THEN [c EXCEPT !.values[length] = <<U8(@[1] + 1), @[2]>>]
        ELSE [c EXCEPT !.values = Append(@, <<1, new_value>>)]

(* variant: the last run is extended without comparing its value *)
RLE_insert_anyvalue(c, new_value) ==
    LET length == Len(c.values)
    IN  IF length > 0 /\ c.values[length][1] < UINT8_MAX - 1
        THEN [c EXCEPT !.values[length] = <<U8(@[1] + 1), @[2]>>]
        ELSE [c EXCEPT !.values = Append(@, <<1, new_value>>)]

RLE_insert(c, new_value) ==
    LET length == Len(c.values)
    IN  IF /\ length > 0
           /\ c.values[length][2] = new_value
           /\ c.values[length][1] < UINT8_MAX - 1
        THEN [c EXCEPT !.values[length] = <<U8(@[1] + 1), @[2]>>]
        ELSE [c EXCEPT !.values = Append(@, <<1, new_value>>)]

(* variant: the trailing branch tests idx_str == entry.first - 1 and so is taken *)
RLE_update_trailing(c, tid, val) ==
    LET loc == tid_to_idx(c.values, tid)
        idx_pair == loc[1]
        idx_str == loc[2]
        entry == c.values[idx_pair + 1]
    IN  IF entry[1] = 1
        THEN [c EXCEPT !.values[idx_pair + 1] = <<1, val>>]
        ELSE IF idx_str = 0 \/ idx_str = entry[1] - 1
        THEN [c EXCEPT !.values =
                 vector_insert([@ EXCEPT ![idx_pair + 1] = <<U8(entry[1] - 1), entry[2]>>],
                               idx_pair, << <<1, val>> >>)]
        ELSE LET len_a == U8(idx_str)
                 len_b == U8(entry[1] - len_a - 1)
             IN  [c EXCEPT !.values =
                     vector_insert([@ EXCEPT ![idx_pair + 1] = <<len_a, entry[2]>>],
                                   idx_pair + 1, << <<1, val>>, <<len_b, entry[2]>> >>)]

(* variant: len_b is computed without the - 1 for the updated row *)
RLE_update_suffix(c, tid, val) ==
    LET loc == tid_to_idx(c.values, tid)
        idx_pair == loc[1]
        idx_str == loc[2]
        entry == c.values[idx_pair + 1]
    IN  IF entry[1] = 1
        THEN [c EXCEPT !.values[idx_pair + 1] = <<1, val>>]
        ELSE IF idx_str = 0
        THEN [c EXCEPT !.values =
                 vector_insert([@ EXCEPT ![idx_pair + 1] = <<U8(entry[1] - 1), entry[2]>>],
                               idx_pair, << <<1, val>> >>)]
        ELSE IF idx_str = entry[1]
        THEN [c EXCEPT !.values =
                 vector_insert([@ EXCEPT ![idx_pair + 1] = <<U8(entry[1] - 1), entry[2]>>],
                               idx_pair, << <<1, val>> >>)]
        ELSE LET len_a == U8(idx_str)
                 len_b == U8(entry[1] - len_a)
             IN  [c EXCEPT !.values =
                     vector_insert([@ EXCEPT ![idx_pair + 1] = <<len_a, entry[2]>>],
                                   idx_pair + 1, << <<1, val>>, <<len_b, entry[2]>> >>)]

(* update(tid, value) for a tid that tid_to_idx resolves to a run *)
RLE_update(c, tid, val) ==
    LET loc == tid_to_idx(c.values, tid)
        idx_pair == loc[1]
        idx_str == loc[2]
        entry == c.values[idx_pair + 1]
    IN  IF entry[1] = 1
        THEN [c EXCEPT !.values[idx_pair + 1] = <<1, val>>]
        ELSE IF idx_str = 0
        THEN [c EXCEPT !.values =
                 vector_insert([@ EXCEPT ![idx_pair + 1] = <<U8(entry[1] - 1), entry[2]>>],
                               idx_pair, << <<1, val>> >>)]
        ELSE IF idx_str = entry[1]
        THEN [c EXCEPT !.values =
                 vector_insert([@ EXCEPT ![idx_pair + 1] = <<U8(entry[1] - 1), entry[2]>>],
                               idx_pair, << <<1, val>> >>)]
        ELSE LET len_a == U8(idx_str)
                 len_b == U8(entry[1] - len_a - 1)
             IN  [c EXCEPT !.values =
                     vector_insert([@ EXCEPT ![idx_pair + 1] = <<len_a, entry[2]>>],
                                   idx_pair + 1, << <<1, val>>, <<len_b, entry[2]>> >>)]

(* variant: the run is erased whatever its length *)
RLE_remove_erase(c, tid) ==
    [c EXCEPT !.values = vector_erase(@, tid_to_idx(c.values, tid)[1])]

RLE_remove(c, tid) ==
    LET idx_of_run == tid_to_idx(c.values, tid)[1]
        entry == c.values[idx_of_run + 1]
    IN  IF entry[1] = 1
        THEN [c EXCEPT !.values = vector_erase(@, idx_of_run)]
        ELSE [c EXCEPT !.values[idx_of_run + 1] = <<U8(entry[1] - 1), entry[2]>>]

RLE_clearContent(c) == [c EXCEPT !.values = <<>>]

(***************************************************************************)
(* Virtual dispatch on the representation.                                 *)
(***************************************************************************)
size(c) ==
    CASE rep = "Column" -> Column_size(c)
      [] rep = "DictionaryCompressedColumn" -> Dictionary_size(c)
      [] rep = "RLECompressedColumn" -> RLE_size(c)

index(c, i) ==
    CASE rep = "Column" -> Column_index(c, i)
      [] rep = "DictionaryCompressedColumn" -> Dictionary_index(c, i)
      [] rep = "RLECompressedColumn" -> RLE_index(c, i)

insert(c, v) ==
    CASE rep = "Column" -> Column_insert(c, v)
      [] rep = "DictionaryCompressedColumn" -> Dictionary_insert(c, v)
      [] rep = "RLECompressedColumn" -> RLE_insert(c, v)

update(c, tid, v) ==
    CASE rep = "Column" -> Column_update(c, tid, v)
      [] rep = "DictionaryCompressedColumn" -> Dictionary_update(c, tid, v)
      [] rep = "RLECompressedColumn" -> RLE_update(c, tid, v)

remove(c, tid) ==
    CASE rep = "Column" -> Column_remove(c, tid)
      [] rep = "DictionaryCompressedColumn" -> Dictionary_remove(c, tid)
      [] rep = "RLECompressedColumn" -> RLE_remove(c, tid)

clearContent(c) ==
    CASE rep = "Column" -> Column_clearContent(c)
      [] rep = "DictionaryCompressedColumn" -> Dictionary_clearContent(c)
      [] rep = "RLECompressedColumn" -> RLE_clearContent(c)

(* the externally observed value sequence: operator[] at every row *)
Rows(c) == [i \in 1..size(c) |-> index(c, i - 1)]

(***************************************************************************)
(* State.                                                                  *)
(***************************************************************************)
NoOp == [op |-> "none", obj |-> "col_one", tid |-> 0,
         value |-> [type |-> "std::monostate", value |-> 0],
         positions |-> <<>>, comp |-> "EQUAL",
         order |-> "ASCENDING", other |-> "col_two", threads |-> 1]

Op(name, o) == [NoOp EXCEPT !.op = name, !.obj = o]

Init ==
    /\ rep \in {"Column", "DictionaryCompressedColumn", "RLECompressedColumn"}
    /\ heap = [o \in {"col_one", "col_two", "cpy"} |-> EmptyColumn]
    /\ copy = "nullptr"
    /\ file = [exists |-> FALSE, bytes |-> <<>>]
    /\ snapshot = <<>>
    /\ reference_data = <<>>
    /\ last = NoOp
    /\ res = Void

Running == res.kind \notin {"abort", "exit"}

(* the object behind a handle: col_one, col_two, or *copy *)
Deref(h) == IF h = "copy" THEN copy ELSE h

(* bound of the model: the run vector of the RLE column stays short *)
Bounded(c) == Len(c.values) <= MaxRuns

(***************************************************************************)
(* Out-of-range rows.  std::vector::operator[] and erase past the end are  *)
(* undefined behaviour: the process may die, or go on with one of the      *)
(* memory states below.  Only Column::get checks the row (vector::at).     *)
(***************************************************************************)
DropLast(s) == IF s = <<>> THEN <<>> ELSE SubSeq(s, 1, Len(s) - 1)

(* values the caller may read from memory past the end of a vector *)
Garbage == {static_t} \cup Values

update_ub(c, tid, v) ==
    CASE rep = "Column" -> {c}
      [] rep = "DictionaryCompressedColumn" ->
            {IF Dictionary_find(c.dictionary, v) < Len(c.dictionary) THEN c
             ELSE [c EXCEPT !.dictionary = Append(@, v)]}
      [] rep = "RLECompressedColumn" -> {c, [c EXCEPT !.values = Append(@, <<1, v>>)]}

remove_ub(c, tid) ==
    CASE rep = "Column" -> {c, [c EXCEPT !.values_ = DropLast(@)]}
      [] rep = "DictionaryCompressedColumn" -> {c, [c EXCEPT !.table = DropLast(@)]}
      [] rep = "RLECompressedColumn" -> {c, [c EXCEPT !.values = DropLast(@)]}

(* get(TID): the results the caller can see *)
get(c, tid) ==
    CASE rep = "Column" ->
            IF tid < Column_size(c) THEN {Returned(Column_index(c, tid))}
            ELSE {Threw("std::out_of_range")}
      [] rep = "DictionaryCompressedColumn" ->
            IF tid < Dictionary_size(c) THEN {Returned(Dictionary_index(c, tid))}
            ELSE {Aborted} \cup {Returned(g) : g \in Garbage}
      [] rep = "RLECompressedColumn" -> {Returned(RLE_index(c, tid))}

(***************************************************************************)
(* ColumnBaseTyped<T>::selection                                           *)
(***************************************************************************)
Comparators == {"LESSER", "GREATER", "EQUAL"}

(* variant: LESSER compares with the operands swapped *)
RECURSIVE selection_loop_swapped(_, _, _, _, _)
selection_loop_swapped(c, value, comp, i, result_tids) ==
    IF i < size(c)
    THEN LET hit == CASE comp = "EQUAL" -> value = index(c, i)
                      [] comp = "LESSER" -> value < index(c, i)
                      [] comp = "GREATER" -> index(c, i) > value
                      [] OTHER -> FALSE
         IN  selection_loop_swapped(c, value, comp, i + 1,
                                    IF hit THEN Append(result_tids, i) ELSE result_tids)
    ELSE result_tids

RECURSIVE selection_loop(_, _, _, _, _)
selection_loop(c, value, comp, i, result_tids) ==
    IF i < size(c)
    THEN LET hit == CASE comp = "EQUAL" -> value = index(c, i)
                      [] comp = "LESSER" -> index(c, i) < value
                      [] comp = "GREATER" -> index(c, i) > value
                      [] OTHER -> FALSE
         IN  selection_loop(c, value, comp, i + 1,
                            IF hit THEN Append(result_tids, i) ELSE result_tids)
    ELSE result_tids

selection(c, value, comp) == selection_loop(c, value, comp, 0, <<>>)

(* The test keeps its reference vector by hand for insert, update(tid) and
   remove(tid) with rows in range.  After any other call on col_one the
   reference is read anew from the column. *)
Reread(h, c) == IF h = "col_one" THEN Rows(c) ELSE reference_data

(***************************************************************************)
(* insert(const ColumnType &): std::get<T> throws before any change.       *)
(***************************************************************************)
Insert(h, nv, bound) ==
    LET o == Deref(h) IN
    /\ Running
    /\ size(heap[o]) < bound
    /\ last' = [Op("insert", h) EXCEPT !.value = nv]
    /\ IF holds_alternative(nv)
       THEN /\ heap' = [heap EXCEPT ![o] = insert(@, nv.value)]
            /\ Bounded(heap'[o])
            /\ reference_data' = IF h = "col_one" THEN Append(reference_data, nv.value)
                                 ELSE reference_data
            /\ res' = Void
       ELSE /\ res' = Threw("std::bad_variant_access")
            /\ UNCHANGED <<heap, reference_data>>
    /\ UNCHANGED frame

(***************************************************************************)
(* update(TID, const ColumnType &).  Every representation reaches          *)
(* std::get<T> before it writes, so a mismatched value changes nothing.    *)
(***************************************************************************)
Update(h, tid, nv) ==
    LET o == Deref(h) IN
    /\ Running
    /\ last' = [Op("update", h) EXCEPT !.tid = tid, !.value = nv]
    /\ IF ~holds_alternative(nv)
       THEN /\ res' = Threw("std::bad_variant_access")
            /\ UNCHANGED <<heap, reference_data>>
       ELSE IF tid < size(heap[o])
       THEN /\ heap' = [heap EXCEPT ![o] = update(@, tid, nv.value)]
            /\ Bounded(heap'[o])
            /\ reference_data' = IF h = "col_one"
                                 THEN vector_assign(reference_data, tid, nv.value)
                                 ELSE reference_data
            /\ res' = Void
       ELSE /\ \/ res' = Aborted /\ UNCHANGED heap
               \/ /\ res' = Void
                  /\ \E c \in update_ub(heap[o], tid, nv.value) :
                        heap' = [heap EXCEPT ![o] = c]
                  /\ Bounded(heap'[o])
            /\ reference_data' = Reread(h, heap'[o])
    /\ UNCHANGED frame

(***************************************************************************)
(* remove(TID)                                                             *)
(***************************************************************************)
Remove(h, tid) ==
    LET o == Deref(h) IN
    /\ Running
    /\ last' = [Op("remove", h) EXCEPT !.tid = tid]
    /\ IF tid < size(heap[o])
       THEN /\ heap' = [heap EXCEPT ![o] = remove(@, tid)]
            /\ reference_data' = IF h = "col_one" THEN vector_erase(reference_data, tid)
                                 ELSE reference_data
            /\ res' = Void
       ELSE /\ \/ res' = Aborted /\ UNCHANGED heap
               \/ /\ res' = Void
                  /\ \E c \in remove_ub(heap[o], tid) : heap' = [heap EXCEPT ![o] = c]
            /\ reference_data' = Reread(h, heap'[o])
    /\ UNCHANGED frame

ClearContent(h) ==
    LET o == Deref(h) IN
    /\ Running
    /\ last' = Op("clearContent", h)
    /\ heap' = [heap EXCEPT ![o] = clearContent(@)]
    /\ reference_data' = IF h = "col_one" THEN <<>> ELSE reference_data
    /\ res' = Void
    /\ UNCHANGED frame

Get(h, tid) ==
    LET o == Deref(h) IN
    /\ Running
    /\ last' = [Op("get", h) EXCEPT !.tid = tid]
    /\ res' \in get(heap[o], tid)
    /\ UNCHANGED <<frame, heap, reference_data>>

Selection(h, nv, comp) ==
    LET o == Deref(h) IN
    /\ Running
    /\ last' = [Op("selection", h) EXCEPT !.value = nv, !.comp = comp]
    /\ res' = IF holds_alternative(nv)
              THEN ReturnedList(selection(heap[o], nv.value, comp))
              ELSE Threw("std::bad_variant_access")
    /\ UNCHANGED <<frame, heap, reference_data>>

(***************************************************************************)
(* The calls on col_one with rows in range and values of the element type. *)
(***************************************************************************)
Tids == 0..MaxRows

InRange(h, tid) == tid < size(heap[Deref(h)])

InsertOne == \E v \in Values : Insert("col_one", IntValue(v), MaxRows)

UpdateOne == \E tid \in Tids, v \in Values :
                InRange("col_one", tid) /\ Update("col_one", tid, IntValue(v))

RemoveOne == \E tid \in Tids : InRange("col_one", tid) /\ Remove("col_one", tid)

ClearOne == ClearContent("col_one")

GetOne == \E tid \in Tids : InRange("col_one", tid) /\ Get("col_one", tid)

SelectionOne == \E v \in Values, comp \in Comparators :
                   Selection("col_one", IntValue(v), comp)

Mutate ==
    \/ InsertOne
    \/ UpdateOne
    \/ RemoveOne
    \/ ClearOne

Next ==
    \/ InsertOne
    \/ UpdateOne
    \/ RemoveOne
    \/ ClearOne
    \/ GetOne
    \/ SelectionOne

Spec == Init /\ [][Next]_vars

(***************************************************************************)
(* Batch calls: update(PositionList &, value) and remove(PositionList &).  *)
(* Column reads the value once and erases from the back; the compressed    *)
(* columns call update(tid) and remove(tid) for each tid from the front.   *)
(***************************************************************************)
RECURSIVE Column_update_list(_, _, _, _)
Column_update_list(c, tids, value, k) ==
    IF k > Len(tids) THEN c
    ELSE Column_update_list(Column_update(c, tids[k], value), tids, value, k + 1)

RECURSIVE Column_remove_list(_, _, _)
Column_remove_list(c, tids, k) ==
    IF k = 0 THEN c
    ELSE Column_remove_list(Column_remove(c, tids[k]), tids, k - 1)

RECURSIVE update_each(_, _, _, _)
update_each(c, positions, value, k) ==
    IF k > Len(positions) THEN c
    ELSE update_each(update(c, positions[k], value), positions, value, k + 1)

(* the column and the result of update(positions, nv), rows in range *)
update_list(c, positions, nv) ==
    IF rep = "Column"
    THEN IF holds_alternative(nv)
         THEN [col |-> Column_update_list(c, positions, nv.value, 1), res |-> Void]
         ELSE [col |-> c, res |-> Threw("std::bad_variant_access")]
    ELSE IF positions = <<>> THEN [col |-> c, res |-> Void]
    ELSE IF holds_alternative(nv)
         THEN [col |-> update_each(c, positions, nv.value, 1), res |-> Void]
         ELSE [col |-> c, res |-> Threw("std::bad_variant_access")]

(* one remove(tid) of the loop: the columns the process may go on with,
   or its death *)
remove_step(c, tid) ==
    IF tid < size(c) THEN {[col |-> remove(c, tid), res |-> Void]}
    ELSE {[col |-> c, res |-> Aborted]} \cup {[col |-> d, res |-> Void] : d \in remove_ub(c, tid)}

RECURSIVE remove_each(_, _, _)
remove_each(c, positions, k) ==
    IF k > Len(positions) THEN {[col |-> c, res |-> Void]}
    ELSE UNION {IF r.res = Aborted THEN {r} ELSE remove_each(r.col, positions, k + 1) :
                  r \in remove_step(c, positions[k])}

remove_list(c, positions) ==
    IF rep = "Column"
    THEN {[col |-> Column_remove_list(c, positions, Len(positions)), res |-> Void]}
    ELSE remove_each(c, positions, 1)

(* strictly ascending position lists *)
PositionLists ==
    {p \in UNION {[1..n -> 0..(MaxRows - 1)] : n \in 0..MaxRows} :
        \A a, b \in 1..Len(p) : a < b => p[a] < p[b]}

AllInRange(h, positions) == \A k \in 1..Len(positions) : InRange(h, positions[k])

UpdateList(h, positions, nv) ==
    LET o == Deref(h)
        r == update_list(heap[o], positions, nv)
    IN  /\ Running
        /\ AllInRange(h, positions)
        /\ last' = [Op("updateList", h) EXCEPT !.positions = positions, !.value = nv]
        /\ heap' = [heap EXCEPT ![o] = r.col]
        /\ Bounded(r.col)
        /\ res' = r.res
        /\ reference_data' = Reread(h, r.col)
        /\ UNCHANGED frame

RemoveList(h, positions) ==
    LET o == Deref(h) IN
    /\ Running
    /\ AllInRange(h, positions)
    /\ last' = [Op("removeList", h) EXCEPT !.positions = positions]
    /\ \E r \in remove_list(heap[o], positions) :
          /\ heap' = [heap EXCEPT ![o] = r.col]
          /\ res' = r.res
          /\ reference_data' = Reread(h, r.col)
    /\ UNCHANGED frame

InsertAny == \E nv \in ColumnType : Insert("col_one", nv, MaxRows)

UpdateAny == \E tid \in Tids, nv \in ColumnType :
                InRange("col_one", tid) /\ Update("col_one", tid, nv)

UpdateListOne == \E p \in PositionLists, nv \in ColumnType : UpdateList("col_one", p, nv)

RemoveListOne == \E p \in PositionLists : RemoveList("col_one", p)

NextBatch ==
    \/ InsertAny
    \/ UpdateAny
    \/ RemoveOne
    \/ ClearOne
    \/ UpdateListOne
    \/ RemoveListOne

SpecBatch == Init /\ [][NextBatch]_vars

(***************************************************************************)
(* Calls with a row at or past size().                                     *)
(***************************************************************************)
GetOut == \E tid \in Tids : ~InRange("col_one", tid) /\ Get("col_one", tid)

UpdateOut == \E tid \in Tids, v \in Values :
                ~InRange("col_one", tid) /\ Update("col_one", tid, IntValue(v))

RemoveOut == \E tid \in Tids : ~InRange("col_one", tid) /\ Remove("col_one", tid)

NextErr ==
    \/ InsertOne
    \/ UpdateOne
    \/ RemoveOne
    \/ ClearOne
    \/ GetOne
    \/ GetOut
    \/ UpdateOut
    \/ RemoveOut

SpecErr == Init /\ [][NextErr]_vars

(***************************************************************************)
(* store / load: cereal's portable binary archive of the containers that   *)
(* serialize() names.  The archive starts with the endianness flag; a      *)
(* vector is its length followed by its elements, a pair its two members.  *)
(***************************************************************************)
little_endian == 1

archive_vector(v) == <<Len(v)>> \o v

(* variant: a pair is written value first *)
RECURSIVE archive_pairs_swapped(_, _)
archive_pairs_swapped(v, k) ==
    IF k > Len(v) THEN <<>>
    ELSE <<v[k][2], U8(v[k][1])>> \o archive_pairs_swapped(v, k + 1)

RECURSIVE archive_pairs(_, _)
archive_pairs(v, k) ==
    IF k > Len(v) THEN <<>> ELSE <<U8(v[k][1]), v[k][2]>> \o archive_pairs(v, k + 1)

serialize(c) ==
    CASE rep = "Column" -> archive_vector(c.values_)
      [] rep = "DictionaryCompressedColumn" ->
            archive_vector(c.dictionary) \o archive_vector(c.table)
      [] rep = "RLECompressedColumn" -> <<Len(c.values)>> \o archive_pairs(c.values, 1)

store(c) == <<little_endian>> \o serialize(c)

(* reading a vector that starts at position pos of the archive *)
read_vector(bytes, pos) ==
    [vec |-> SubSeq(bytes, pos + 1, pos + bytes[pos]), next |-> pos + bytes[pos] + 1]

read_pairs(bytes, pos) ==
    [k \in 1..bytes[pos] |-> <<bytes[pos + 2 * k - 1], bytes[pos + 2 * k]>>]

load(c, bytes) ==
    CASE rep = "Column" -> [c EXCEPT !.values_ = read_vector(bytes, 2).vec]
      [] rep = "DictionaryCompressedColumn" ->
            LET d == read_vector(bytes, 2)
            IN  [c EXCEPT !.dictionary = d.vec, !.table = read_vector(bytes, d.next).vec]
      [] rep = "RLECompressedColumn" -> [c EXCEPT !.values = read_pairs(bytes, 2)]

Store(h) ==
    LET o == Deref(h) IN
    /\ Running
    /\ last' = Op("store", h)
    /\ file' = [exists |-> TRUE, bytes |-> store(heap[o])]
    /\ snapshot' = Rows(heap[o])
    /\ res' = Void
    /\ UNCHANGED <<rep, copy, heap, reference_data>>

(* variant: a stream that failed to open is read as an empty archive *)
Load_silent(h) ==
    LET o == Deref(h) IN
    /\ Running
    /\ last' = Op("load", h)
    /\ heap' = [heap EXCEPT ![o] = IF file.exists THEN load(@, file.bytes) ELSE EmptyColumn]
    /\ res' = Void
    /\ UNCHANGED <<frame, reference_data>>

(* without a file the archive cannot read its first byte and throws *)
Load(h) ==
    LET o == Deref(h) IN
    /\ Running
    /\ last' = Op("load", h)
    /\ IF file.exists
       THEN /\ heap' = [heap EXCEPT ![o] = load(@, file.bytes)]
            /\ res' = Void
       ELSE /\ res' = Threw("cereal::Exception")
            /\ UNCHANGED heap
    /\ UNCHANGED <<frame, reference_data>>

Build == ~file.exists /\ Mutate

StoreOne == Store("col_one")

ClearStored == file.exists /\ ClearContent("col_one")

(* the column that loads is freshly constructed *)
LoadTwo == heap["col_two"] = EmptyColumn /\ Load("col_two")

NextStore ==
    \/ Build
    \/ StoreOne
    \/ ClearStored
    \/ LoadTwo

SpecStore == Init /\ [][NextStore]_vars

(***************************************************************************)
(* copy(): std::make_unique of this object, a new object that holds copies *)
(* of the vectors.  operator== compares size() and then row by row.        *)
(***************************************************************************)
(* variant: the pointer returned refers to the original object *)
make_unique_alias(hp, o) == [ptr |-> o, heap |-> hp]

make_unique_copy(hp, o) == [ptr |-> "cpy", heap |-> [hp EXCEPT !["cpy"] = hp[o]]]

operator_eq(a, b) ==
    IF size(a) # size(b) THEN FALSE
    ELSE \A i \in 0..(size(a) - 1) : ~(index(a, i) # index(b, i))

Copy(h) ==
    LET r == make_unique_copy(heap, Deref(h)) IN
    /\ Running
    /\ last' = Op("copy", h)
    /\ copy' = r.ptr
    /\ heap' = r.heap
    /\ res' = Void
    /\ UNCHANGED <<rep, file, snapshot, reference_data>>

BuildOriginal == copy = "nullptr" /\ Mutate

CopyOne == copy = "nullptr" /\ Copy("col_one")

(* the call that follows copy(), on the original or on the copy *)
AfterCopy ==
    /\ last.op = "copy"
    /\ \E h \in {"col_one", "copy"} :
          \/ \E v \in Values : Insert(h, IntValue(v), MaxRows)
          \/ \E tid \in Tids, v \in Values : InRange(h, tid) /\ Update(h, tid, IntValue(v))
          \/ \E tid \in Tids : InRange(h, tid) /\ Remove(h, tid)
          \/ ClearContent(h)

NextCopy ==
    \/ BuildOriginal
    \/ CopyOne
    \/ AfterCopy

SpecCopy == Init /\ [][NextCopy]_vars

(***************************************************************************)
(* Filling a fresh column: any values while the column is short, then the  *)
(* value of the last row again and again, past the cap of an RLE run.      *)
(***************************************************************************)
Fill ==
    \E v \in Values :
        /\ IF size(heap["col_one"]) < MaxRows THEN TRUE
           ELSE index(heap["col_one"], size(heap["col_one"]) - 1) = v
        /\ Insert("col_one", IntValue(v), MaxFill)

NextFill == Fill

SpecFill == Init /\ [][NextFill]_vars

(***************************************************************************)
(* ColumnBaseTyped<T>::sort: the pairs (value, row) are sorted by          *)
(* std::stable_sort under less_equal or greater_equal of std::pair.  The   *)
(* rows differ, so no two pairs are equal and both comparators order the   *)
(* pairs strictly; on the short vectors here std::stable_sort is an        *)
(* insertion sort.  Another order value leaves the pairs as they are.      *)
(***************************************************************************)
SortOrders == {"ASCENDING", "DESCENDING"}

(* operator< of std::pair: first, then second *)
pair_less(a, b) == a[1] < b[1] \/ (a[1] = b[1] /\ a[2] < b[2])

less_equal(a, b) == ~pair_less(b, a)

greater_equal(a, b) == ~pair_less(a, b)

(* variant: DESCENDING sorts with the ascending comparator *)
sort_comp_ascending(order, a, b) == less_equal(a, b)

sort_comp(order, a, b) ==
    IF order = "ASCENDING" THEN less_equal(a, b) ELSE greater_equal(a, b)

(* val moves towards the front while comp(val, element before it) *)
RECURSIVE linear_insert(_, _, _)
linear_insert(sorted, val, order) ==
    IF sorted = <<>> THEN <<val>>
    ELSE IF sort_comp(order, val, sorted[Len(sorted)])
         THEN Append(linear_insert(DropLast(sorted), val, order), sorted[Len(sorted)])
         ELSE Append(sorted, val)

RECURSIVE stable_sort(_, _, _)
stable_sort(v, order, k) ==
    IF k > Len(v) THEN <<>>
    ELSE linear_insert(stable_sort(v, order, k + 1), v[Len(v) - k + 1], order)

sort(c, order) ==
    LET v == [i \in 1..size(c) |-> <<index(c, i - 1), i - 1>>]
        sorted == IF order \in SortOrders THEN stable_sort(v, order, 1) ELSE v
    IN  [k \in 1..Len(sorted) |-> sorted[k][2]]

Sort(h, order) ==
    LET o == Deref(h) IN
    /\ Running
    /\ last' = [Op("sort", h) EXCEPT !.order = order]
    /\ res' = ReturnedList(sort(heap[o], order))
    /\ UNCHANGED <<frame, heap, reference_data>>

SortOne == \E order \in SortOrders : Sort("col_one", order)

NextSort ==
    \/ InsertOne
    \/ UpdateOne
    \/ RemoveOne
    \/ SortOne

SpecSort == Init /\ [][NextSort]_vars

(***************************************************************************)
(* Joins.  The joined column is col_two, or a Column<std::string> that the *)
(* caller built: the joins compare getType() before they read a row, so    *)
(* the rows of the string column play no part and it stands here as an     *)
(* empty column outside the heap.                                          *)
(***************************************************************************)
ReturnedPair(first, second) == [kind |-> "pair", value |-> 0, list |-> <<first, second>>]

(* exit(-1): the process ends *)
Exited == [kind |-> "exit", value |-> -1, list |-> <<>>]

JoinColumns == {"col_two", "string_column"}

element_type(h) == IF h = "string_column" THEN "std::string" ELSE value_type

getType(T) ==
    CASE T = "int" -> "INT"
      [] T = "float" -> "FLOAT"
      [] T = "bool" -> "BOOLEAN"
      [] T = "std::string" -> "VARCHAR"

ColumnOf(h) == IF h = "string_column" THEN EmptyColumn ELSE heap[Deref(h)]

(* std::unordered_multimap keeps equal keys together; the order inside
   equal_range is left to the library: insertion order or its reverse. *)
Reverse(s) == [k \in 1..Len(s) |-> s[Len(s) - k + 1]]

hashtable_insert(c) == [i \in 1..size(c) |-> <<index(c, i - 1), i - 1>>]

(* variant: the table keeps one entry per key *)
equal_range_first(hashtable, key, ho) ==
    LET hits == SelectSeq(hashtable, LAMBDA e : e[1] = key)
    IN  IF hits = <<>> THEN <<>> ELSE <<hits[1]>>

equal_range(hashtable, key, ho) ==
    LET hits == SelectSeq(hashtable, LAMBDA e : e[1] = key)
    IN  IF ho = "insertion" THEN hits ELSE Reverse(hits)

RECURSIVE probe_range(_, _, _, _)
probe_range(range, i, k, join_tids) ==
    IF k > Len(range) THEN join_tids
    ELSE probe_range(range, i, k + 1,
                     [first |-> Append(join_tids.first, range[k][2]),
                      second |-> Append(join_tids.second, i)])

(* variant: the rows of the joined column are probed from the last to the first *)
RECURSIVE probe_backwards(_, _, _, _, _)
probe_backwards(hashtable, join_column, ho, i, join_tids) ==
    IF i < size(join_column)
    THEN LET row == size(join_column) - 1 - i
         IN  probe_backwards(hashtable, join_column, ho, i + 1,
                 probe_range(equal_range(hashtable, index(join_column, row), ho), row, 1, join_tids))
    ELSE join_tids

RECURSIVE probe(_, _, _, _, _)
probe(hashtable, join_column, ho, i, join_tids) ==
    IF i < size(join_column)
    THEN probe(hashtable, join_column, ho, i + 1,
               probe_range(equal_range(hashtable, index(join_column, i), ho), i, 1, join_tids))
    ELSE join_tids

hash_join(c, join_type, join_column, ho) ==
    IF getType(join_type) # getType(value_type) THEN Aborted
    ELSE LET join_tids == probe(hashtable_insert(c), join_column, ho, 0,
                                [first |-> <<>>, second |-> <<>>])
         IN  ReturnedPair(join_tids.first, join_tids.second)

sort_merge_join(c, join_type, join_column) ==
    IF getType(join_type) # getType(value_type) THEN Aborted
    ELSE ReturnedPair(<<>>, <<>>)

(* variant: the outer loop runs over the joined column *)
RECURSIVE nested_loop_column_major(_, _, _, _, _)
nested_loop_column_major(c, join_column, i, j, join_tids) ==
    IF j >= size(join_column) THEN join_tids
    ELSE IF i >= size(c) THEN nested_loop_column_major(c, join_column, 0, j + 1, join_tids)
    ELSE nested_loop_column_major(c, join_column, i + 1, j,
                     IF index(c, i) = index(join_column, j)
                     THEN [first |-> Append(join_tids.first, i),
                           second |-> Append(join_tids.second, j)]
                     ELSE join_tids)

RECURSIVE nested_loop(_, _, _, _, _)
nested_loop(c, join_column, i, j, join_tids) ==
    IF i >= size(c) THEN join_tids
    ELSE IF j >= size(join_column) THEN nested_loop(c, join_column, i + 1, 0, join_tids)
    ELSE nested_loop(c, join_column, i, j + 1,
                     IF index(c, i) = index(join_column, j)
                     THEN [first |-> Append(join_tids.first, i),
                           second |-> Append(join_tids.second, j)]
                     ELSE join_tids)

(* variant: the columns are joined without a look at their types *)
nested_loop_join_unchecked(c, join_type, join_column) ==
    LET join_tids == nested_loop(c, join_column, 0, 0, [first |-> <<>>, second |-> <<>>])
    IN  ReturnedPair(join_tids.first, join_tids.second)

nested_loop_join(c, join_type, join_column) ==
    IF getType(join_type) # getType(value_type) THEN Exited
    ELSE LET join_tids == nested_loop(c, join_column, 0, 0, [first |-> <<>>, second |-> <<>>])
         IN  ReturnedPair(join_tids.first, join_tids.second)

HashJoin(h, other, ho) ==
    /\ Running
    /\ last' = [Op("hash_join", h) EXCEPT !.other = other]
    /\ res' = hash_join(ColumnOf(h), element_type(other), ColumnOf(other), ho)
    /\ UNCHANGED <<frame, heap, reference_data>>

SortMergeJoin(h, other) ==
    /\ Running
    /\ last' = [Op("sort_merge_join", h) EXCEPT !.other = other]
    /\ res' = sort_merge_join(ColumnOf(h), element_type(other), ColumnOf(other))
    /\ UNCHANGED <<frame, heap, reference_data>>

NestedLoopJoin(h, other) ==
    /\ Running
    /\ last' = [Op("nested_loop_join", h) EXCEPT !.other = other]
    /\ res' = nested_loop_join(ColumnOf(h), element_type(other), ColumnOf(other))
    /\ UNCHANGED <<frame, heap, reference_data>>

InsertTwo == \E v \in Values : Insert("col_two", IntValue(v), MaxRows)

HashJoinOne == \E other \in JoinColumns, ho \in {"insertion", "reverse"} : HashJoin("col_one", other, ho)

SortMergeJoinOne == \E other \in JoinColumns : SortMergeJoin("col_one", other)

NestedLoopJoinOne == \E other \in JoinColumns : NestedLoopJoin("col_one", other)

NextJoin ==
    \/ InsertOne
    \/ InsertTwo
    \/ HashJoinOne
    \/ SortMergeJoinOne
    \/ NestedLoopJoinOne

SpecJoin == Init /\ [][NextJoin]_vars

(***************************************************************************)
(* ColumnBaseTyped<T>::parallel_selection: the body constructs an empty    *)
(* list and returns it; none of the three parameters is read.              *)
(***************************************************************************)
parallel_selection(c, value_for_comparison, comp, number_of_threads) == <<>>

ParallelSelection(h, nv, comp, number_of_threads) ==
    LET o == Deref(h) IN
    /\ Running
    /\ last' = [Op("parallel_selection", h) EXCEPT
                    !.value = nv, !.comp = comp, !.threads = number_of_threads]
    /\ res' = ReturnedList(parallel_selection(heap[o], nv, comp, number_of_threads))
    /\ UNCHANGED <<frame, heap, reference_data>>

ParallelSelectionOne ==
    \E v \in Values, comp \in Comparators, n \in 1..MaxThreads :
        ParallelSelection("col_one", IntValue(v), comp, n)

NextSelect ==
    \/ InsertOne
    \/ UpdateOne
    \/ SelectionOne
    \/ ParallelSelectionOne

SpecSelect == Init /\ [][NextSelect]_vars

(***************************************************************************)
(* Column algebra.  add and minus read the scalar with std::get<Type>.     *)
(* multiply and division read it with std::any_cast<Type>: the ColumnType  *)
(* argument converts to a std::any that holds a ColumnType, never a Type,  *)
(* so the cast throws std::bad_any_cast.  The column variants cast the     *)
(* other column (dynamic_cast in add and multiply, reinterpret_cast in     *)
(* minus and division) and read its row i for every row i of this column   *)
(* without a look at its size.                                             *)
(***************************************************************************)
ArithOps == {"add", "minus", "multiply", "division"}

ReturnedBool(b) == [kind |-> "bool", value |-> IF b THEN 1 ELSE 0, list |-> <<>>]

(* operator/ of int: the quotient is truncated towards zero *)
int_div(a, b) ==
    LET abs(x) == IF x < 0 THEN -x ELSE x
        q == abs(a) \div abs(b)
    IN  IF (a < 0) = (b < 0) THEN q ELSE -q

arith(op, a, b) ==
    CASE op = "add" -> a + b
      [] op = "minus" -> a - b
      [] op = "multiply" -> a * b
      [] op = "division" -> int_div(a, b)

(* for every row i in turn: update(i, row i op value) *)
RECURSIVE arith_loop(_, _, _, _)
arith_loop(c, op, value, i) ==
    IF i < size(c) THEN arith_loop(update(c, i, arith(op, index(c, i), value)), op, value, i + 1)
    ELSE c

(* the type of the object inside the std::any made from a ColumnType *)
arith_scalar(c, op, nv) ==
    IF nv.type = "std::monostate" THEN [col |-> c, res |-> ReturnedBool(FALSE)]
    ELSE IF op \in {"add", "minus"}
    THEN IF ~holds_alternative(nv) THEN [col |-> c, res |-> Threw("std::bad_variant_access")]
         ELSE [col |-> arith_loop(c, op, nv.value, 0), res |-> ReturnedBool(TRUE)]
    ELSE IF "ColumnType" # value_type THEN [col |-> c, res |-> Threw("std::bad_any_cast")]
    ELSE IF op = "division" /\ nv.value = 0 THEN [col |-> c, res |-> ReturnedBool(FALSE)]
    ELSE [col |-> arith_loop(c, op, nv.value, 0), res |-> ReturnedBool(TRUE)]

(* typed_column[i]: a row of the other column; past its end the RLE column
   returns its static default, a vector read is undefined; every read of a
   column of another type through the reinterpreted reference is undefined *)
typed_column_index(column, mismatched, i) ==
    IF mismatched THEN Garbage
    ELSE IF i < size(column) THEN {index(column, i)}
    ELSE IF rep = "RLECompressedColumn" THEN {static_t}
    ELSE Garbage

(* the outcomes of the loop over the rows: undefined reads and an integer
   division by zero may end the process with the rows updated so far *)
RECURSIVE arith_columns(_, _, _, _, _)
arith_columns(c, op, column, mismatched, i) ==
    IF i >= size(c) THEN {[col |-> c, res |-> ReturnedBool(TRUE)]}
    ELSE LET undefined == mismatched \/ (i >= size(column) /\ rep # "RLECompressedColumn")
         IN  (IF undefined THEN {[col |-> c, res |-> Aborted]} ELSE {})
             \cup UNION {IF op = "division" /\ b = 0
                         THEN {[col |-> c, res |-> Aborted]}
                         ELSE arith_columns(update(c, i, arith(op, index(c, i), b)),
                                            op, column, mismatched, i + 1)
                         : b \in typed_column_index(column, mismatched, i)}

arith_column(c, op, column_type, column) ==
    LET mismatched == column_type # value_type
    IN  IF op \in {"add", "multiply"} /\ mismatched
        THEN {[col |-> c, res |-> Threw("std::bad_cast")]}
        ELSE arith_columns(c, op, column, mismatched, 0)

ArithScalar(h, op, nv) ==
    LET o == Deref(h)
        r == arith_scalar(heap[o], op, nv)
    IN  /\ Running
        /\ last' = [Op(op, h) EXCEPT !.value = nv, !.other = "scalar"]
        /\ heap' = [heap EXCEPT ![o] = r.col]
        /\ res' = r.res
        /\ reference_data' = Reread(h, heap'[o])
        /\ UNCHANGED frame

ArithColumn(h, op, other) ==
    LET o == Deref(h) IN
    /\ Running
    /\ last' = [Op(op, h) EXCEPT !.other = other]
    /\ \E r \in arith_column(heap[o], op, element_type(other), ColumnOf(other)) :
          /\ heap' = [heap EXCEPT ![o] = r.col]
          /\ res' = r.res
    /\ reference_data' = Reread(h, heap'[o])
    /\ UNCHANGED frame

(* the columns are built first; one call of the column algebra follows *)
BuildOperands == last.op \notin ArithOps /\ (InsertOne \/ UpdateOne \/ InsertTwo)

ArithScalarOne ==
    /\ last.op \notin ArithOps
    /\ \E op \in ArithOps, nv \in ColumnType \cup {IntValue(0)} : ArithScalar("col_one", op, nv)

ArithColumnOne ==
    /\ last.op \notin ArithOps
    /\ \E op \in ArithOps, other \in JoinColumns : ArithColumn("col_one", op, other)

NextArith ==
    \/ BuildOperands
    \/ ArithScalarOne
    \/ ArithColumnOne

SpecArith == Init /\ [][NextArith]_vars

(***************************************************************************)
(* The dictionary column on its own: a fresh DictionaryCompressedColumn    *)
(* that is filled and updated, and then the same with rows removed, single *)
(* and in batches, and the content cleared.                                *)
(***************************************************************************)
InitDictionary == Init /\ rep = "DictionaryCompressedColumn"

NextDictionaryBuild ==
    \/ InsertOne
    \/ UpdateOne

SpecDictionaryBuild == InitDictionary /\ [][NextDictionaryBuild]_vars

NextDictionary ==
    \/ InsertOne
    \/ UpdateOne
    \/ RemoveOne
    \/ ClearOne
    \/ UpdateListOne
    \/ RemoveListOne

SpecDictionary == InitDictionary /\ [][NextDictionary]_vars

(***************************************************************************)
(* The run-length column alone: short columns under insert, update and     *)
(* remove, and columns that are filled with one value past the cap of a    *)
(* run and, once full, updated and removed from.                           *)
(***************************************************************************)
InitRLE == Init /\ rep = "RLECompressedColumn"

NextRLE ==
    \/ InsertOne
    \/ UpdateOne
    \/ RemoveOne

SpecRLE == InitRLE /\ [][NextRLE]_vars

FillRun ==
    \E v \in Values :
        /\ last.op \in {"none", "insert"}
        /\ IF size(heap["col_one"]) = 0 THEN TRUE
           ELSE index(heap["col_one"], size(heap["col_one"]) - 1) = v
        /\ Insert("col_one", IntValue(v), MaxFill)

UpdateFull == size(heap["col_one"]) >= MaxFill - 1 /\ UpdateOne

RemoveFull == size(heap["col_one"]) >= MaxFill - 1 /\ RemoveOne

NextCap ==
    \/ FillRun
    \/ UpdateFull
    \/ RemoveFull

SpecCap == InitRLE /\ [][NextCap]_vars


(***************************************************************************)
(* Claims.                                                                 *)
(***************************************************************************)
one == heap["col_one"]

two == heap["col_two"]

LastOn(name) == last.op = name /\ last.obj = "col_one"

(* C1: after every insert, update and remove with rows in range the column
   of each representation has the size and, row by row, the values of the
   reference vector that underwent the same calls; so the plain, the
   dictionary and the RLE column agree with each other. *)
C1_SameAsReference ==
    /\ size(one) = Len(reference_data)
    /\ \A i \in 0..(Len(reference_data) - 1) : index(one, i) = reference_data[i + 1]

C1_Witness ==
    /\ rep = "RLECompressedColumn"
    /\ LastOn("update")
    /\ res = Void
    /\ Len(reference_data) = MaxRows
    /\ Len(one.values) > MaxRows
    /\ C1_SameAsReference

(* C2: N inserts into a fresh column give size() = N and get(i) returns the
   i-th inserted value, also past 254 equal values in an RLE column. *)
C2_InsertOrder ==
    /\ size(one) = Len(reference_data)
    /\ \A i \in 0..(Len(reference_data) - 1) :
          get(one, i) = {Returned(reference_data[i + 1])}

C2_Witness ==
    /\ rep = "RLECompressedColumn"
    /\ Len(reference_data) > UINT8_MAX - 1
    /\ \E v \in Values : \A i \in 1..Len(reference_data) : reference_data[i] = v
    /\ Len(one.values) = 2
    /\ C2_InsertOrder

(* C3: remove(k) with k < size() decreases size() by one, keeps every row
   below k and moves every row above k down by one, value unchanged. *)
C3_RemoveShifts ==
    [][(last'.op = "remove" /\ last'.obj = "col_one" /\ last'.tid < size(one)) =>
          LET k == last'.tid
          IN  /\ size(heap'["col_one"]) = size(one) - 1
              /\ \A i \in 0..(k - 1) : index(heap'["col_one"], i) = index(one, i)
              /\ \A i \in (k + 1)..(size(one) - 1) :
                    index(heap'["col_one"], i - 1) = index(one, i)]_vars

C3_Witness ==
    /\ rep = "RLECompressedColumn"
    /\ LastOn("remove")
    /\ res = Void
    /\ last.tid = 1
    /\ size(one) = 2
    /\ index(one, 0) # index(one, 1)

(* C4: update(row, v) with row < size() and v of the element type keeps
   size(), makes the value at row equal v and keeps every other row. *)
C4_UpdateFrame ==
    [][(/\ last'.op = "update" /\ last'.obj = "col_one"
        /\ last'.tid < size(one) /\ holds_alternative(last'.value)) =>
          /\ size(heap'["col_one"]) = size(one)
          /\ index(heap'["col_one"], last'.tid) = last'.value.value
          /\ \A i \in 0..(size(one) - 1) :
                i # last'.tid => index(heap'["col_one"], i) = index(one, i)]_vars

C4_Witness ==
    /\ rep = "RLECompressedColumn"
    /\ LastOn("update")
    /\ res = Void
    /\ size(one) = MaxRows
    /\ last.tid = MaxRows - 1
    /\ index(one, last.tid) # index(one, last.tid - 1)
    /\ \E k \in 1..Len(one.values) : one.values[k][1] = 0

(* the rows of s whose index is not listed in positions *)
RECURSIVE Without(_, _, _)
Without(s, positions, i) ==
    IF i > Len(s) THEN <<>>
    ELSE (IF \E k \in 1..Len(positions) : positions[k] = i - 1 THEN <<>> ELSE <<s[i]>>)
            \o Without(s, positions, i + 1)

(* C5: remove(positions) with a strictly ascending list of rows in range
   removes exactly the rows that stood at those positions before the call
   and reduces size() by the length of the list, in every representation. *)
C5_RemoveList ==
    [][(last'.op = "removeList" /\ last'.obj = "col_one") =>
          /\ res' = Void
          /\ size(heap'["col_one"]) = size(one) - Len(last'.positions)
          /\ Rows(heap'["col_one"]) = Without(Rows(one), last'.positions, 1)]_vars

(* C6: store on a column followed by load on a freshly constructed column
   of the same representation gives the loading column the size and the
   values the stored column had at the time of store, also when the stored
   column was cleared in between. *)
C6_RoundTrip ==
    (last.op = "load" /\ last.obj = "col_two" /\ res = Void) =>
        /\ size(two) = Len(snapshot)
        /\ \A i \in 0..(Len(snapshot) - 1) : index(two, i) = snapshot[i + 1]

C6_Witness ==
    /\ rep = "RLECompressedColumn"
    /\ last.op = "load"
    /\ res = Void
    /\ size(one) = 0
    /\ Len(snapshot) = MaxRows
    /\ Len(two.values) = MaxRows
    /\ C6_RoundTrip

Mutators == {"insert", "update", "remove", "clearContent"}

(* C7: copy() returns a column that operator== finds equal to the
   original, and a later insert, update, remove or clearContent on the
   original or on the copy leaves the size and the values of the other
   unchanged. *)
C7_CopyIndependent ==
    [][/\ last'.op = "copy" =>
             /\ copy' # "nullptr"
             /\ operator_eq(heap'[copy'], heap'["col_one"])
       /\ (last.op = "copy" /\ last'.op \in Mutators /\ last'.obj = "col_one") =>
             Rows(heap'[copy]) = Rows(heap[copy])
       /\ (last.op = "copy" /\ last'.op \in Mutators /\ last'.obj = "copy") =>
             Rows(heap'["col_one"]) = Rows(one)]_vars

C7_Witness ==
    /\ rep = "DictionaryCompressedColumn"
    /\ last.op = "remove"
    /\ last.obj = "copy"
    /\ copy = "cpy"
    /\ size(one) = MaxRows
    /\ size(heap["cpy"]) = MaxRows - 1

(* C8: get(row), update(row, v) and remove(row) with row >= size() fail
   with an index error in every representation: get returns no value,
   update and remove leave the column unchanged. *)
C8_IndexError ==
    [][(/\ last'.op \in {"get", "update", "remove"}
        /\ last'.obj = "col_one"
        /\ last'.tid >= size(one)) =>
          /\ res'.kind = "std::out_of_range"
          /\ heap' = heap]_vars

(* C9: insert(value), update(row, value) and update(positions, value) with
   a value that does not hold the element type fail with a type-mismatch
   error and leave the column unchanged, in every representation. *)
C9_TypeMismatch ==
    [][(/\ last'.op \in {"insert", "update", "updateList"}
        /\ last'.obj = "col_one"
        /\ ~holds_alternative(last'.value)) =>
          /\ res'.kind = "std::bad_variant_access"
          /\ heap' = heap]_vars

Satisfies(x, comp, value) ==
    \/ comp = "EQUAL" /\ x = value
    \/ comp = "LESSER" /\ x < value
    \/ comp = "GREATER" /\ x > value

(* C10: selection(value, comp) returns exactly the rows whose value is
   equal to, less than or greater than the value, each once, ascending. *)
C10_Selection ==
    (LastOn("selection") /\ res.kind = "list") =>
        /\ \A a, b \in 1..Len(res.list) : a < b => res.list[a] < res.list[b]
        /\ {res.list[a] : a \in 1..Len(res.list)} =
              {i \in 0..(size(one) - 1) : Satisfies(index(one, i), last.comp, last.value.value)}

C10_Witness ==
    /\ LastOn("selection")
    /\ rep = "DictionaryCompressedColumn"
    /\ last.comp = "LESSER"
    /\ size(one) = MaxRows
    /\ Len(res.list) = 2
    /\ res.list[1] = 0

(* C11: sort(order) returns every row of the column exactly once, and the
   values read at the listed rows in sequence never decrease for ASCENDING
   and never increase for DESCENDING. *)
C11_SortPermutation ==
    LastOn("sort") =>
        /\ res.kind = "list"
        /\ Len(res.list) = size(one)
        /\ {res.list[k] : k \in 1..Len(res.list)} = 0..(size(one) - 1)
        /\ \A k \in 1..(Len(res.list) - 1) :
              IF last.order = "ASCENDING"
              THEN index(one, res.list[k]) <= index(one, res.list[k + 1])
              ELSE index(one, res.list[k]) >= index(one, res.list[k + 1])

C11_Witness ==
    /\ LastOn("sort")
    /\ rep = "RLECompressedColumn"
    /\ last.order = "DESCENDING"
    /\ size(one) = MaxRows
    /\ index(one, 0) < index(one, 1)
    /\ res.list[1] # 0
    /\ \E k \in 1..Len(one.values) : one.values[k][1] = 0

(* C12: sort(order) is stable for ASCENDING and for DESCENDING: of two rows
   i < j that hold equal values, i stands before j in the returned list. *)
C12_SortStable ==
    LastOn("sort") =>
        \A a, b \in 1..Len(res.list) :
            (/\ res.list[a] < res.list[b]
             /\ index(one, res.list[a]) = index(one, res.list[b])) => a < b

PairSet(r) == {<<r.list[1][k], r.list[2][k]>> : k \in 1..Len(r.list[1])}

Matches(a, b) ==
    {p \in (0..(size(a) - 1)) \X (0..(size(b) - 1)) : index(a, p[1]) = index(b, p[2])}

(* C13: A.hash_join(B) on columns of the same element type returns two
   lists of equal length whose co-indexed pairs are exactly the pairs (i, j)
   with A[i] = B[j], each once: the pairs that A.nested_loop_join(B)
   returns. *)
C13_HashJoin ==
    (LastOn("hash_join") /\ res.kind = "pair") =>
        /\ Len(res.list[1]) = Len(res.list[2])
        /\ PairSet(res) = Matches(one, two)
        /\ \A a, b \in 1..Len(res.list[1]) :
              (res.list[1][a] = res.list[1][b] /\ res.list[2][a] = res.list[2][b]) => a = b
        /\ PairSet(res) = PairSet(nested_loop_join(one, value_type, two))
        /\ Len(res.list[1]) = Len(nested_loop_join(one, value_type, two).list[1])

C13_Witness ==
    /\ LastOn("hash_join")
    /\ res.kind = "pair"
    /\ rep = "DictionaryCompressedColumn"
    /\ size(one) = MaxRows
    /\ size(two) = MaxRows
    /\ Len(res.list[1]) > MaxRows
    /\ res.list[1][1] > res.list[1][2]
    /\ Matches(one, two) # (0..(MaxRows - 1)) \X (0..(MaxRows - 1))

(* C14: on two columns of the same element type hash_join,
   nested_loop_join and sort_merge_join return the same set of matched
   pairs (tid_left, tid_right); only the order of the pairs may differ. *)
C14_SameJoinPairs ==
    (/\ last.op \in {"hash_join", "nested_loop_join", "sort_merge_join"}
     /\ last.obj = "col_one"
     /\ res.kind = "pair") =>
        /\ PairSet(res) = PairSet(hash_join(one, value_type, two, "insertion"))
        /\ PairSet(res) = PairSet(nested_loop_join(one, value_type, two))
        /\ PairSet(res) = PairSet(sort_merge_join(one, value_type, two))

Joins == {"hash_join", "nested_loop_join", "sort_merge_join"}

JoinMismatch == last'.op \in Joins /\ getType(element_type(last'.other)) # getType(element_type(last'.obj))

(* a call that fails with an error its caller receives *)
Surfaced(r) == r.kind \notin {"void", "value", "list", "pair", "bool", "abort", "exit"}

(* C16 as stated: a join with a column whose getType() differs fails with
   a type-mismatch error that reaches the caller, returns no pair and
   modifies neither column. *)
C16_JoinTypeError ==
    [][JoinMismatch => (Surfaced(res') /\ heap' = heap)]_vars

(* C16: a join with a column whose getType() differs returns no pair and
   modifies neither column: hash_join and sort_merge_join abort the
   process and nested_loop_join exits it, so no error reaches the caller
   and no call follows. *)
C16_JoinTypeFatal ==
    [][JoinMismatch =>
          /\ res' = (IF last'.op = "nested_loop_join" THEN Exited ELSE Aborted)
          /\ ~Running'
          /\ heap' = heap]_vars

C16_Witness ==
    /\ LastOn("nested_loop_join")
    /\ last.other = "string_column"
    /\ res = Exited
    /\ size(one) = MaxRows
    /\ size(two) = MaxRows

(* C15: parallel_selection(value, comp, thread_count) returns for every
   thread_count >= 1 the list that selection(value, comp) returns on the
   same column: the same rows in the same ascending order. *)
C15_ParallelSelection ==
    LastOn("parallel_selection") =>
        /\ res.kind = "list"
        /\ res.list = selection(one, last.value.value, last.comp)

(* C17: on a numeric column of any representation, add, minus, multiply
   and division with a scalar of the element type (not zero for division)
   return true, leave size() unchanged and make every row i hold
   old[i] + value, old[i] - value, old[i] * value, old[i] / value. *)
C17_ScalarArithmetic ==
    [][(/\ last'.op \in ArithOps
        /\ last'.obj = "col_one"
        /\ last'.other = "scalar"
        /\ holds_alternative(last'.value)
        /\ (last'.op = "division" => last'.value.value # 0)) =>
          /\ res' = ReturnedBool(TRUE)
          /\ size(heap'["col_one"]) = size(one)
          /\ \A i \in 0..(size(one) - 1) :
                index(heap'["col_one"], i) = arith(last'.op, index(one, i), last'.value.value)]_vars

(* C18: division(value) with a scalar of the element type that equals
   zero returns false, raises no error and leaves every row unchanged. *)
C18_DivisionByZero ==
    [][(/\ last'.op = "division"
        /\ last'.obj = "col_one"
        /\ last'.other = "scalar"
        /\ holds_alternative(last'.value)
        /\ last'.value.value = 0) =>
          /\ res' = ReturnedBool(FALSE)
          /\ Rows(heap'["col_one"]) = Rows(one)]_vars

(* C19: add, minus, multiply and division with another column whose size
   or element type differs from the calling column's fail with a
   type-mismatch error and modify no row of the calling column. *)
C19_ColumnArithmetic ==
    [][(/\ last'.op \in ArithOps
        /\ last'.obj = "col_one"
        /\ last'.other \in JoinColumns
        /\ \/ element_type(last'.other) # value_type
           \/ size(ColumnOf(last'.other)) # size(one)) =>
          /\ Surfaced(res')
          /\ Rows(heap'["col_one"]) = Rows(one)]_vars

(* C20: after clearContent() size() is 0 in every representation and the
   column is in the state of a freshly constructed column, so that every
   later call behaves as on a fresh column: the dictionary column has an
   empty table and an empty dictionary, the RLE column has no run. *)
C20_ClearIsFresh ==
    LastOn("clearContent") =>
        /\ size(one) = 0
        /\ one = EmptyColumn
        /\ Rows(one) = <<>>

C20_Witness ==
    /\ LastOn("clearContent")
    /\ rep = "DictionaryCompressedColumn"
    /\ file.exists
    /\ Len(snapshot) = MaxRows
    /\ snapshot[1] # snapshot[2]
    /\ one = EmptyColumn

(* C21: load(path) without a file at path + name fails with an error that
   reaches the caller; it never completes normally, and the column it was
   called on is left as it was. *)
C21_LoadMissingFile ==
    [][(last'.op = "load" /\ ~file.exists) =>
          /\ Surfaced(res')
          /\ res' # Void
          /\ heap' = heap]_vars

C21_Witness ==
    /\ last.op = "load"
    /\ last.obj = "col_two"
    /\ ~file.exists
    /\ res = Threw("cereal::Exception")
    /\ size(one) = MaxRows
    /\ two = EmptyColumn

(* C22: A.nested_loop_join(B) emits its pairs (i, j) in row-major order:
   the sequence of pairs strictly increases in the lexicographic order on
   (i, j), i a row of A and j a row of B. *)
C22_NestedLoopOrder ==
    (LastOn("nested_loop_join") /\ res.kind = "pair") =>
        /\ Len(res.list[1]) = Len(res.list[2])
        /\ \A k \in 1..(Len(res.list[1]) - 1) :
              \/ res.list[1][k] < res.list[1][k + 1]
              \/ /\ res.list[1][k] = res.list[1][k + 1]
                 /\ res.list[2][k] < res.list[2][k + 1]

C22_Witness ==
    /\ LastOn("nested_loop_join")
    /\ res.kind = "pair"
    /\ rep = "RLECompressedColumn"
    /\ size(one) = MaxRows
    /\ size(two) = MaxRows
    /\ Len(res.list[1]) > MaxRows
    /\ res.list[2][1] > res.list[2][Len(res.list[2])]

(* the second list of a hash_join result never decreases *)
ProbeRowMajor ==
    \A k \in 1..(Len(res.list[2]) - 1) : res.list[2][k] <= res.list[2][k + 1]

(* C23 as stated: A.hash_join(B) emits its pairs in probe-row-major order
   and, among the pairs of one probe row, the rows of A in the order of
   their insertion into the hash table: ascending row order of A. *)
C23_HashJoinInsertionOrder ==
    (LastOn("hash_join") /\ res.kind = "pair") =>
        /\ ProbeRowMajor
        /\ \A k \in 1..(Len(res.list[1]) - 1) :
              res.list[2][k] = res.list[2][k + 1] => res.list[1][k] < res.list[1][k + 1]

(* C23: A.hash_join(B) emits its pairs in probe-row-major order; among the
   pairs of one probe row every matching row of A stands once, in the order
   in which equal_range of the hash table yields them: ascending row order
   for every probe row, or descending row order for every probe row. *)
C23_HashJoinOrder ==
    (LastOn("hash_join") /\ res.kind = "pair") =>
        /\ ProbeRowMajor
        /\ \/ \A k \in 1..(Len(res.list[1]) - 1) :
                 res.list[2][k] = res.list[2][k + 1] => res.list[1][k] < res.list[1][k + 1]
           \/ \A k \in 1..(Len(res.list[1]) - 1) :
                 res.list[2][k] = res.list[2][k + 1] => res.list[1][k] > res.list[1][k + 1]

C23_Witness ==
    /\ LastOn("hash_join")
    /\ res.kind = "pair"
    /\ rep = "Column"
    /\ size(one) = MaxRows
    /\ size(two) = MaxRows
    /\ Len(res.list[1]) > MaxRows
    /\ res.list[2][1] = res.list[2][2]
    /\ res.list[1][1] > res.list[1][2]
    /\ res.list[2][1] < res.list[2][Len(res.list[2])]

(* C24: in a dictionary column filled by insert and update calls from a
   fresh column the dictionary lists the distinct values passed so far,
   each once, in first-seen order: a call with a value the dictionary holds
   leaves it as it is, a call with a new value appends that value; and
   table[row] is the dictionary position of the current value of the row. *)
C24_DictionaryFirstSeen ==
    [][(LastOn("insert") \/ LastOn("update"))' =>
          LET dictionary == one.dictionary
              after == heap'["col_one"]
              v == last'.value.value
          IN  /\ after.dictionary =
                    IF \E k \in 1..Len(dictionary) : dictionary[k] = v
                    THEN dictionary ELSE Append(dictionary, v)
              /\ \A a, b \in 1..Len(after.dictionary) :
                    after.dictionary[a] = after.dictionary[b] => a = b
              /\ Len(after.table) = Len(reference_data')
              /\ \A row \in 1..Len(after.table) :
                    /\ after.table[row] \in 0..(Len(after.dictionary) - 1)
                    /\ after.dictionary[after.table[row] + 1] = reference_data'[row]]_vars

C24_Witness ==
    /\ LastOn("update")
    /\ one.dictionary = <<2, 1>>
    /\ one.table = <<1, 0, 1>>

(* C25: in a dictionary column, after any sequence of insert, update,
   remove (single and batch, rows in range) and clearContent calls every
   entry of table is a valid index into dictionary. *)
C25_TableInDictionary ==
    \A row \in 1..Len(one.table) : one.table[row] \in 0..(Len(one.dictionary) - 1)

C25_Witness ==
    /\ LastOn("removeList")
    /\ res = Void
    /\ Len(last.positions) = 2
    /\ one.dictionary = <<1, 2>>
    /\ one.table = <<1>>

(* C26: in a dictionary column insert, update and remove (single and
   batch) never remove or reorder dictionary entries: the dictionary before
   the call is a prefix of the dictionary after it, and remove leaves the
   dictionary exactly as it was, also when the removed row was the last one
   that referred to an entry. *)
C26_DictionaryGrowsOnly ==
    [][/\ last'.op \in {"insert", "update", "updateList", "remove", "removeList"} =>
             /\ Len(one.dictionary) <= Len(heap'["col_one"].dictionary)
             /\ SubSeq(heap'["col_one"].dictionary, 1, Len(one.dictionary)) = one.dictionary
       /\ last'.op \in {"remove", "removeList"} =>
             heap'["col_one"].dictionary = one.dictionary]_vars

C26_Witness ==
    /\ LastOn("remove")
    /\ res = Void
    /\ one.table = <<0>>
    /\ Len(one.dictionary) = MaxVal

(* the run list with the run at position k (from 1) replaced by the runs in seq *)
RunsReplaced(runs, k, seq) == SubSeq(runs, 1, k - 1) \o seq \o SubSeq(runs, k + 1, Len(runs))

(* the position (from 1) of the run that holds the row, and the offset of the row in it *)
RunOf(runs, tid) == LET loc == tid_to_idx(runs, tid) IN <<loc[1] + 1, loc[2]>>

(* C27: RLE insert(v) increments the length of the last run when that run
   holds v and its length is below the cap of 254, and appends the run
   (1, v) otherwise; after any sequence of insert, update and remove calls
   no run is longer than 254. *)
C27_RunCap ==
    [][/\ LastOn("insert")' =>
             LET runs == one.values
                 n == Len(runs)
                 v == last'.value.value
             IN  heap'["col_one"].values =
                    IF n > 0 /\ runs[n][2] = v /\ runs[n][1] < 254
                    THEN [runs EXCEPT ![n] = <<runs[n][1] + 1, v>>]
                    ELSE Append(runs, <<1, v>>)
       /\ \A k \in 1..Len(heap'["col_one"].values) :
             heap'["col_one"].values[k][1] <= 254]_vars

C27_Witness ==
    /\ LastOn("remove")
    /\ Len(one.values) = 2
    /\ one.values[1][1] = 253
    /\ one.values[2][1] = 2
    /\ one.values[1][2] = one.values[2][2]

(* C28: RLE update(row, v) on the first or the last row of a run (L, old)
   with L >= 2 replaces that run by exactly two runs, (1, v), (L-1, old)
   for the first row and (L-1, old), (1, v) for the last row, and leaves
   the other runs as they are. *)
C28_UpdateRunEnd ==
    [][LastOn("update")' =>
          LET runs == one.values
              at == RunOf(runs, last'.tid)
              k == at[1]
              L == runs[k][1]
              old == runs[k][2]
              v == last'.value.value
          IN  /\ (L >= 2 /\ at[2] = 0) =>
                    heap'["col_one"].values =
                       RunsReplaced(runs, k, << <<1, v>>, <<L - 1, old>> >>)
              /\ (L >= 2 /\ at[2] = L - 1) =>
                    heap'["col_one"].values =
                       RunsReplaced(runs, k, << <<L - 1, old>>, <<1, v>> >>)]_vars

(* C29: RLE update(row, v) on a row strictly inside a run (L, old), at
   offset o with 0 < o < L-1, replaces that run by the three runs (o, old),
   (1, v), (L-o-1, old), and leaves the other runs and the number of rows
   as they are. *)
C29_UpdateInsideRun ==
    [][LastOn("update")' =>
          LET runs == one.values
              at == RunOf(runs, last'.tid)
              k == at[1]
              o == at[2]
              L == runs[k][1]
              old == runs[k][2]
              v == last'.value.value
          IN  (0 < o /\ o < L - 1) =>
                 /\ heap'["col_one"].values =
                       RunsReplaced(runs, k, << <<o, old>>, <<1, v>>, <<L - o - 1, old>> >>)
                 /\ RLE_size(heap'["col_one"]) = RLE_size(one)]_vars

C29_Witness ==
    /\ LastOn("update")
    /\ one.values = << <<1, 1>>, <<1, 2>>, <<1, 1>> >>
    /\ last.tid = 1

(* C30: in an RLE column, after any insert, update or remove on rows in
   range every run has a length of at least 1, and there are never more
   runs than rows. *)
C30_RunsNonEmpty ==
    /\ \A k \in 1..Len(one.values) : one.values[k][1] >= 1
    /\ Len(one.values) <= RLE_size(one)

====
